---- MODULE Spec2Model ----
(***************************************************************************)
(* A model of the pure-python Lerc1 decoder (Lerc1Decode.py).              *)
(*                                                                         *)
(* A blob is a sequence of bytes (0..255).  Python offsets are 0-based, so *)
(* byte `off` of a blob is b[off + 1].  A python call either returns or    *)
(* raises: every operator that models a function returns a record whose    *)
(* field exc is "none" or the name of the exception raised.                *)
(***************************************************************************)
EXTENDS Integers, Sequences, FiniteSets, TLC

VARIABLES
  py,       \* major version of the interpreter running the module (2 or 3)
  pc,       \* "new" before lerc(blob), "open" after
  blob,     \* the blob handed to lerc(blob)
  session,  \* the lerc object: its attributes, and which of them are assigned
  hist,     \* the decode calls made on the session: <<argument, outcome>>
  rle,      \* decode_RLE applied to a reference encoder's output
  qv,       \* read_qval applied to a reference packer's output
  blk,      \* read_block applied to one block
  tile      \* read_tiles' dispatch of blocks

vars == <<py, pc, blob, session, hist, rle, qv, blk, tile>>

Idle == [pc |-> "idle"]

(***************************************************************************)
(* Bounds of the model.                                                    *)
(***************************************************************************)
MaxRuns == 3      \* runs a reference RLE encoding is built from
MaxRunLen == 2    \* bytes of one literal run, repetitions of one repeat run
MaxPad == 1       \* bytes in front of a region under test (a non-zero offset)
MaxDim == 5       \* image width and height of the tile dispatch
MaxDecodes == 2   \* decode calls on one session

(***************************************************************************)
(* struct.unpack_from and the little-endian field formats.                 *)
(***************************************************************************)
Min(a, b) == IF a <= b THEN a ELSE b

RECURSIVE Pow2(_)
Pow2(n) == IF n <= 0 THEN 1 ELSE 2 * Pow2(n - 1)

\* unpack_from raises struct.error unless the n bytes at off lie in the buffer
Avail(b, off, n) == off >= 0 /\ n >= 0 /\ off + n <= Len(b)

Bytes(b, off, n) == SubSeq(b, off + 1, off + n)

\* "B"
U8(b, off) == b[off + 1]

\* "b"
I8(b, off) == IF b[off + 1] >= 128 THEN b[off + 1] - 256 ELSE b[off + 1]

\* "<H"
U16(b, off) == b[off + 1] + 256 * b[off + 2]

\* "<h"
I16(b, off) == IF U16(b, off) >= 32768 THEN U16(b, off) - 65536 ELSE U16(b, off)

\* "<I" (fields below 2^31: the model's integers are 32-bit signed)
U32(b, off) == b[off + 1] + 256 * b[off + 2] + 65536 * b[off + 3]
               + 16777216 * b[off + 4]

\* tuple repetition: (v,) * n is empty for n <= 0
Rep(v, n) == [i \in 1..n |-> v]

(***************************************************************************)
(* decode_RLE                                                              *)
(***************************************************************************)
EndMarker == -32768

\* a variant of the loop body that takes size - 2 - count with the negative count
RLEIterNoReset(b, st) ==
  IF ~Avail(b, st.offset, 2) THEN [st EXCEPT !.exc = "struct.error"]
  ELSE LET count == I16(b, st.offset)
           off == st.offset + 2
       IN IF count < 0
          THEN IF ~Avail(b, off, 1) THEN [st EXCEPT !.exc = "struct.error"]
               ELSE [exc |-> "none", offset |-> off + count,
                     size |-> st.size - (2 + count),
                     result |-> st.result \o Rep(U8(b, off), -count)]
          ELSE IF ~Avail(b, off, count) THEN [st EXCEPT !.exc = "struct.error"]
               ELSE [exc |-> "none", offset |-> off + count,
                     size |-> st.size - (2 + count),
                     result |-> st.result \o Bytes(b, off, count)]

\* one iteration of the while loop, on (offset, size, result)
RLEIter(b, st) ==
  IF ~Avail(b, st.offset, 2) THEN [st EXCEPT !.exc = "struct.error"]
  ELSE LET count == I16(b, st.offset)
           off == st.offset + 2
       IN IF count < 0
          THEN IF ~Avail(b, off, 1) THEN [st EXCEPT !.exc = "struct.error"]
               ELSE [exc |-> "none", offset |-> off + 1,
                     size |-> st.size - (2 + 1),
                     result |-> st.result \o Rep(U8(b, off), -count)]
          ELSE IF ~Avail(b, off, count) THEN [st EXCEPT !.exc = "struct.error"]
               ELSE [exc |-> "none", offset |-> off + count,
                     size |-> st.size - (2 + count),
                     result |-> st.result \o Bytes(b, off, count)]

\* the while loop: runs RLEIter while size > 2
RECURSIVE RLELoop(_, _)
RLELoop(b, st) ==
  IF st.exc # "none" \/ ~(st.size > 2) THEN st ELSE RLELoop(b, RLEIter(b, st))

\* the values of size at the loop's test, first to last
RECURSIVE RLEBudgets(_, _)
RLEBudgets(b, st) ==
  IF st.exc # "none" \/ ~(st.size > 2) THEN <<st.size>>
  ELSE <<st.size>> \o RLEBudgets(b, RLEIter(b, st))

\* returns the bytes, or None (isNone) when the end marker check fails
decode_RLE(b, offset, size) ==
  LET st == RLELoop(b, [exc |-> "none", offset |-> offset, size |-> size,
                        result |-> <<>>])
  IN IF st.exc # "none" THEN [exc |-> st.exc, isNone |-> FALSE, val |-> <<>>]
     ELSE IF ~Avail(b, st.offset, 2)
          THEN [exc |-> "struct.error", isNone |-> FALSE, val |-> <<>>]
     ELSE IF I16(b, st.offset) # EndMarker
          THEN [exc |-> "none", isNone |-> TRUE, val |-> <<>>]
     ELSE [exc |-> "none", isNone |-> FALSE, val |-> st.result]

(***************************************************************************)
(* The reference run-length encoder: literal runs (count >= 0, then count  *)
(* bytes), repeat runs (count < 0, then one byte), closed by the marker.   *)
(***************************************************************************)
\* a signed 16-bit count as two little-endian bytes
EncI16(n) == LET u == IF n < 0 THEN n + 65536 ELSE n IN <<u % 256, u \div 256>>

RleAlphabet == {0, 255}

RleLiterals == UNION {[1..n -> RleAlphabet] : n \in 0..MaxRunLen}

OnlyRle == UNCHANGED <<py, pc, blob, session, hist, qv, blk, tile>>

RleStart == [pc |-> "build", src |-> <<>>, enc |-> <<>>, runs |-> 0,
                  pad |-> 0, out |-> [exc |-> "none", isNone |-> FALSE, val |-> <<>>],
                  budgets |-> <<>>]

\* the encoder appends a literal run
RleLiteral ==
  /\ OnlyRle
  /\ rle.pc = "build" /\ rle.runs < MaxRuns
  /\ \E run \in RleLiterals :
       rle' = [rle EXCEPT !.src = @ \o run,
                          !.enc = @ \o EncI16(Len(run)) \o run,
                          !.runs = @ + 1]

\* the encoder appends a repeat run
RleRepeat ==
  /\ OnlyRle
  /\ rle.pc = "build" /\ rle.runs < MaxRuns
  /\ \E v \in RleAlphabet, n \in 1..MaxRunLen :
       rle' = [rle EXCEPT !.src = @ \o Rep(v, n),
                          !.enc = @ \o EncI16(-n) \o <<v>>,
                          !.runs = @ + 1]

\* the encoder closes the stream with the end marker
RleClose ==
  /\ OnlyRle
  /\ rle.pc = "build"
  /\ rle' = [rle EXCEPT !.pc = "encoded", !.enc = @ \o EncI16(EndMarker)]

\* decode_RLE(blob, offset, size) on the encoded region, placed at offset pad
RleDecode ==
  /\ OnlyRle
  /\ rle.pc = "encoded"
  /\ \E pad \in 0..MaxPad :
       LET b == Rep(85, pad) \o rle.enc
       IN rle' = [rle EXCEPT !.pc = "decoded", !.pad = pad,
                    !.out = decode_RLE(b, pad, Len(rle.enc)),
                    !.budgets = RLEBudgets(b, [exc |-> "none", offset |-> pad,
                                    size |-> Len(rle.enc), result |-> <<>>])]

RleInit ==
  /\ rle = RleStart
  /\ py = 2 /\ pc = "idle" /\ blob = <<>> /\ session = Idle /\ hist = <<>>
  /\ qv = Idle /\ blk = Idle /\ tile = Idle

RleNext == RleLiteral \/ RleRepeat \/ RleClose \/ RleDecode

SpecRLE == RleInit /\ [][RleNext]_vars

\* C6: decode_RLE returns exactly the bytes the reference encoder was given
\* (the empty sequence included), and every iteration of its loop lowers the
\* remaining budget by at least 2.
C6_RoundTrip ==
  rle.pc = "decoded" =>
    /\ rle.out.exc = "none" /\ ~rle.out.isNone
    /\ rle.out.val = rle.src
    /\ \A i \in 1..(Len(rle.budgets) - 1) : rle.budgets[i + 1] <= rle.budgets[i] - 2

\* a decoded stream that mixes a repeat run and a literal run
C6_Witness ==
  /\ rle.pc = "decoded" /\ rle.runs = 3 /\ Len(rle.budgets) = 4
  /\ rle.src = <<255, 255, 0, 255, 0>> /\ rle.out.val = rle.src

(***************************************************************************)
(* read_qval.  A 32-bit word is its 32 bits, most significant first, so    *)
(* that no value of the model leaves the range of a 32-bit signed integer: *)
(* read_qval is modelled for nbits <= 31.                                  *)
(***************************************************************************)
\* the n bits of v, most significant first
Bits(v, n) == [j \in 1..n |-> (v \div Pow2(n - j)) % 2]

\* the 32-bit word of four little-endian bytes
WordBits(b4) == Bits(b4[4], 8) \o Bits(b4[3], 8) \o Bits(b4[2], 8) \o Bits(b4[1], 8)

\* bit p of word w, bit 0 the least significant; 0 outside the word
BitAt(w, p) == IF p >= 0 /\ p <= 31 THEN w[32 - p] ELSE 0

\* the n low bits of (w >> k), or of (w << -k) when k < 0
RECURSIVE Field(_, _, _)
Field(w, k, n) == IF n <= 0 THEN 0 ELSE BitAt(w, k) + 2 * Field(w, k + 1, n - 1)

\* the width of the count field, (4, 2, 1)[bc]
CountWidth(bc) == CASE bc = 0 -> 4 [] bc = 1 -> 2 [] OTHER -> 1

\* the count field, ("<I", "<H", "B")[bc]
CountAt(b, off, bc) ==
  CASE bc = 0 -> U32(b, off) [] bc = 1 -> U16(b, off) [] OTHER -> U8(b, off)

\* the decode loop from value dst on: wi is the word v was taken from
RECURSIVE QLoop(_, _, _, _, _, _, _)
QLoop(words, count, nbits, dst, wi, bits_left, acc) ==
  IF dst >= count THEN [exc |-> "none", val |-> acc]
  ELSE IF bits_left >= nbits
  THEN QLoop(words, count, nbits, dst + 1, wi, bits_left - nbits,
             Append(acc, Field(words[wi], bits_left - nbits, nbits)))
  ELSE IF wi + 1 > Len(words) THEN [exc |-> "StopIteration", val |-> acc]
  ELSE LET vtmp == Field(words[wi], bits_left - nbits, nbits)
           left == bits_left + 32 - nbits
       IN QLoop(words, count, nbits, dst + 1, wi + 1, left,
                Append(acc, vtmp + Field(words[wi + 1], left, 32 - left)))

QRaise(e, off) == [exc |-> e, isNone |-> FALSE, val |-> <<>>, offset |-> off]

\* returns (values, offset); values is None (isNone) when nbits is 0
read_qval(b, offset) ==
  IF ~Avail(b, offset, 1) THEN QRaise("struct.error", offset)
  ELSE
  LET hdr == U8(b, offset)
      bc == hdr \div 64
      nbits == hdr % 64
      off1 == offset + 1
  IN
  IF nbits = 0 THEN [exc |-> "none", isNone |-> TRUE, val |-> <<>>, offset |-> off1]
  ELSE IF bc = 3 THEN QRaise("IndexError", off1)
  ELSE IF ~Avail(b, off1, CountWidth(bc)) THEN QRaise("struct.error", off1)
  ELSE IF nbits > 31 THEN QRaise("beyond the model", off1)
  ELSE
  LET count == CountAt(b, off1, bc)
      off2 == off1 + CountWidth(bc)
      nbytes == (count * nbits + 7) \div 8
      nint == nbytes \div 4
      extra_bytes == nbytes - nint * 4
      off3 == off2 + nint * 4
  IN
  IF ~Avail(b, off2, nint * 4) THEN QRaise("struct.error", off2)
  ELSE IF extra_bytes # 0 /\ ~Avail(b, off3, extra_bytes)
  THEN QRaise("struct.error", off3)
  ELSE
  LET values32 ==
        [i \in 1..nint |-> WordBits(Bytes(b, off2 + 4 * (i - 1), 4))]
        \o (IF extra_bytes # 0
            THEN <<WordBits(Rep(0, 4 - extra_bytes) \o Bytes(b, off3, extra_bytes))>>
            ELSE <<>>)
      end == off3 + extra_bytes
  IN
  \* v = next(src) on an empty tuple
  IF Len(values32) = 0 THEN QRaise("StopIteration", end)
  ELSE LET r == QLoop(values32, count, nbits, 0, 1, 32, <<>>)
       IN [exc |-> r.exc, isNone |-> FALSE, val |-> r.val, offset |-> end]

(***************************************************************************)
(* The reference packer: header byte, count field, the values' bits most   *)
(* significant first in whole little-endian 32-bit words, and of a         *)
(* trailing partial word only its used high-order bytes.                   *)
(***************************************************************************)
RECURSIVE BitsToInt(_)
BitsToInt(bs) ==
  IF Len(bs) = 0 THEN 0
  ELSE 2 * BitsToInt(SubSeq(bs, 1, Len(bs) - 1)) + bs[Len(bs)]

RECURSIVE Flatten(_)
Flatten(ss) == IF Len(ss) = 0 THEN <<>> ELSE Head(ss) \o Flatten(Tail(ss))

\* the four little-endian bytes of a word given as 32 bits
WordBytes(w) == [k \in 1..4 |-> BitsToInt(SubSeq(w, 32 - 8 * k + 1, 32 - 8 * (k - 1)))]

EncCount(bc, n) ==
  CASE bc = 0 -> <<n % 256, (n \div 256) % 256, (n \div 65536) % 256, n \div 16777216>>
    [] bc = 1 -> <<n % 256, n \div 256>>
    [] OTHER -> <<n>>

PackQ(nbits, bc, values) ==
  LET count == Len(values)
      stream == Flatten([i \in 1..count |-> Bits(values[i], nbits)])
      nbytes == (count * nbits + 7) \div 8
      nwords == (nbytes + 3) \div 4
      padded == stream \o Rep(0, 32 * nwords - Len(stream))
      word(i) == WordBytes(SubSeq(padded, 32 * (i - 1) + 1, 32 * i))
      full == nbytes \div 4
      extra == nbytes - 4 * full
  IN <<bc * 64 + nbits>> \o EncCount(bc, count)
     \o Flatten([i \in 1..full |-> word(i)])
     \o (IF extra = 0 THEN <<>> ELSE SubSeq(word(nwords), 4 - extra + 1, 4))

QBits == {1, 3, 8, 16, 31}
QCounts == {0, 1, 2, 33}
QPatterns == {"zeros", "ones", "checker", "ends", "thirds"}

\* value i of a pattern, as nbits bits
QValue(pat, i, nbits) ==
  BitsToInt([j \in 1..nbits |->
    CASE pat = "zeros" -> 0
      [] pat = "ones" -> 1
      [] pat = "checker" -> (i + j) % 2
      [] pat = "ends" -> IF j = 1 \/ j = nbits THEN 1 ELSE 0
      [] OTHER -> IF (i * j) % 3 = 0 THEN 1 ELSE 0])

OnlyQv == UNCHANGED <<py, pc, blob, session, hist, rle, blk, tile>>

QvInit ==
  /\ \E nbits \in QBits, count \in QCounts, bc \in 0..2, pat \in QPatterns :
       qv = [pc |-> "input", nbits |-> nbits, bc |-> bc,
             values |-> [i \in 1..count |-> QValue(pat, i, nbits)],
             pad |-> 0, packed |-> <<>>, out |-> QRaise("none", 0)]
  /\ py = 2 /\ pc = "idle" /\ blob = <<>> /\ session = Idle /\ hist = <<>>
  /\ rle = Idle /\ blk = Idle /\ tile = Idle

\* the reference packer packs the sequence
QvPack ==
  /\ OnlyQv
  /\ qv.pc = "input"
  /\ qv' = [qv EXCEPT !.pc = "packed", !.packed = PackQ(qv.nbits, qv.bc, qv.values)]

\* read_qval(blob, offset) at the packed data's offset
QvUnpack ==
  /\ OnlyQv
  /\ qv.pc = "packed"
  /\ \E pad \in 0..MaxPad :
       qv' = [qv EXCEPT !.pc = "unpacked", !.pad = pad,
                !.out = read_qval(Rep(85, pad) \o qv.packed \o Rep(85, pad), pad)]

QvNext == QvPack \/ QvUnpack

SpecQ == QvInit /\ [][QvNext]_vars

\* C5: for bitsPerValue in {1, 3, 8, 16, 31} and count in {0, 1, 2, 33}, read_qval
\* on the reference packer's output returns the original sequence and the offset
\* just past the packed bytes.
C5_RoundTrip ==
  qv.pc = "unpacked" =>
    /\ qv.out.exc = "none" /\ ~qv.out.isNone
    /\ qv.out.val = qv.values
    /\ qv.out.offset = qv.pad + Len(qv.packed)

\* the same round trip for the counts above 0
QNonEmptyRoundTrip ==
  qv.pc = "unpacked" /\ Len(qv.values) > 0 =>
    /\ qv.out.exc = "none" /\ ~qv.out.isNone
    /\ qv.out.val = qv.values
    /\ qv.out.offset = qv.pad + Len(qv.packed)

\* a count of 0 leaves read_qval without a first word
QEmptyStops ==
  qv.pc = "unpacked" /\ Len(qv.values) = 0 => qv.out.exc = "StopIteration"

(***************************************************************************)
(* Floats.  The model holds the floats whose value is a small integer, as  *)
(* that integer; NotModelled stands for every other bit pattern, which the *)
(* inputs of the model never hold.                                         *)
(***************************************************************************)
NotModelled == "not modelled"

\* "<f" on four bytes
F32(b4) ==
  LET s == b4[4] \div 128
      e == (b4[4] % 128) * 2 + b4[3] \div 128
      m == b4[3] % 128
  IN IF b4[1] # 0 \/ b4[2] # 0 THEN NotModelled
     ELSE IF e = 0 /\ m = 0 THEN 0
     ELSE IF e >= 127 /\ e <= 134 /\ ((128 + m) * Pow2(e - 127)) % 128 = 0
          THEN (1 - 2 * s) * (((128 + m) * Pow2(e - 127)) \div 128)
     ELSE NotModelled

\* twice the "<d" on eight bytes: self.u after self.u *= 2
F64Twice(b8) ==
  LET s == b8[8] \div 128
      e == (b8[8] % 128) * 16 + b8[7] \div 16
      m == b8[7] % 16
  IN IF \E i \in 1..6 : b8[i] # 0 THEN NotModelled
     ELSE IF e = 0 /\ m = 0 THEN 0
     ELSE IF e >= 1022 /\ e <= 1026 /\ ((16 + m) * Pow2(e - 1022)) % 16 = 0
          THEN (1 - 2 * s) * (((16 + m) * Pow2(e - 1022)) \div 16)
     ELSE NotModelled

\* the bytes of the float32 values the inputs are built from
EncF32(v) ==
  CASE v = 0 -> <<0, 0, 0, 0>>     [] v = 1 -> <<0, 0, 128, 63>>
    [] v = 2 -> <<0, 0, 0, 64>>    [] v = 3 -> <<0, 0, 64, 64>>
    [] v = 4 -> <<0, 0, 128, 64>>  [] v = 5 -> <<0, 0, 160, 64>>
    [] v = 6 -> <<0, 0, 192, 64>>  [] v = 7 -> <<0, 0, 224, 64>>
    [] v = 8 -> <<0, 0, 0, 65>>    [] v = 9 -> <<0, 0, 16, 65>>
    [] v = -1 -> <<0, 0, 128, 191>>

\* the bytes of the float64 whose double is q (q = 1: a half step of 0.5)
EncHalfStep(q) ==
  CASE q = 0 -> <<0, 0, 0, 0, 0, 0, 0, 0>>
    [] q = 1 -> <<0, 0, 0, 0, 0, 0, 224, 63>>
    [] q = 2 -> <<0, 0, 0, 0, 0, 0, 240, 63>>
    [] q = 3 -> <<0, 0, 0, 0, 0, 0, 248, 63>>

(***************************************************************************)
(* assert: raises AssertionError unless the condition holds                *)
(***************************************************************************)
\* the interpreter run with asserts stripped
PyAssertStripped(c) == TRUE

PyAssert(c) == c

(***************************************************************************)
(* dloop and range                                                         *)
(***************************************************************************)
\* range(a, b, step) for step > 0
RECURSIVE Range(_, _, _)
Range(a, b, step) == IF a >= b THEN <<>> ELSE <<a>> \o Range(a + step, b, step)

\* the (x, y) pairs, x inner, y outer
dloop(xr, yr) ==
  [k \in 1..(Len(xr) * Len(yr)) |->
     <<xr[((k - 1) % Len(xr)) + 1], yr[((k - 1) \div Len(xr)) + 1]>>]

(***************************************************************************)
(* bitmask                                                                 *)
(***************************************************************************)
NoMask == [w |-> 0, h |-> 0, data |-> <<>>]

\* bitmask(w, h, val, data); dataIsNone when data is None (or not given).
\* sz = (w * h + 7) / 8 is an int under python 2 and a float under python 3,
\* where (val,) * sz raises TypeError; sz is used only when data is None.
bitmask(pyv, w, h, val, dataIsNone, data) ==
  IF ~dataIsNone THEN [exc |-> "none", mask |-> [w |-> w, h |-> h, data |-> data]]
  ELSE IF pyv = 3 THEN [exc |-> "TypeError", mask |-> NoMask]
  ELSE [exc |-> "none",
        mask |-> [w |-> w, h |-> h, data |-> Rep(val, (w * h + 7) \div 8)]]

\* mask.at(x, y): IndexError when the byte is not in data
AtRaises(mask, x, y) == ((y * mask.w + x) \div 8) + 1 > Len(mask.data)

at(mask, x, y) ==
  LET l == y * mask.w + x
  IN (mask.data[(l \div 8) + 1] \div Pow2(7 - (l % 8))) % 2 # 0

(***************************************************************************)
(* read_block.  Returns [exc, data, offset]: data is the array as the call *)
(* left it, also when it raised.                                           *)
(***************************************************************************)
\* a variant of the constant fill that skips the pixels the mask leaves out
ConstFillMasked(data, px, mask, mval) ==
  [i \in 1..Len(data) |->
     IF \E k \in 1..Len(px) : /\ px[k][2] * mask.w + px[k][1] + 1 = i
                              /\ ~AtRaises(mask, px[k][1], px[k][2])
                              /\ at(mask, px[k][1], px[k][2])
     THEN mval ELSE data[i]]

\* for x, y in dloop(rx, ry): data[y * mask.w + x] = mval
ConstFill(data, px, mask, mval) ==
  [i \in 1..Len(data) |->
     IF \E k \in 1..Len(px) : px[k][2] * mask.w + px[k][1] + 1 = i
     THEN mval ELSE data[i]]

\* a variant that leaves out the clamp to max_val
QuantValueNoClamp(mval, Q, v, max_val) == mval + Q * v

\* min(mval + Q * next(src), max_val)
QuantValue(mval, Q, v, max_val) == Min(mval + Q * v, max_val)

\* mode 0, from pixel i on: one float per pixel the mask holds
RECURSIVE RawLoop(_, _, _, _, _, _)
RawLoop(px, i, mask, b, data, offset) ==
  IF i > Len(px) THEN [exc |-> "none", data |-> data, offset |-> offset]
  ELSE LET x == px[i][1]
           y == px[i][2]
           idx == y * mask.w + x + 1
       IN IF AtRaises(mask, x, y)
          THEN [exc |-> "IndexError", data |-> data, offset |-> offset]
          ELSE IF ~at(mask, x, y) THEN RawLoop(px, i + 1, mask, b, data, offset)
          ELSE IF ~Avail(b, offset, 4)
          THEN [exc |-> "struct.error", data |-> data, offset |-> offset]
          ELSE IF idx > Len(data)
          THEN [exc |-> "IndexError", data |-> data, offset |-> offset]
          ELSE RawLoop(px, i + 1, mask, b,
                       [data EXCEPT ![idx] = F32(Bytes(b, offset, 4))], offset + 4)

\* the quantized mode, from pixel i on: ival[k] is the value next(src) returns
RECURSIVE QuantLoop(_, _, _, _, _, _, _, _, _, _)
QuantLoop(px, i, mask, ival, k, mval, Q, max_val, data, offset) ==
  IF i > Len(px) THEN [exc |-> "none", data |-> data, offset |-> offset]
  ELSE LET x == px[i][1]
           y == px[i][2]
           idx == y * mask.w + x + 1
       IN IF AtRaises(mask, x, y)
          THEN [exc |-> "IndexError", data |-> data, offset |-> offset]
          ELSE IF ~at(mask, x, y)
          THEN QuantLoop(px, i + 1, mask, ival, k, mval, Q, max_val, data, offset)
          ELSE IF k > Len(ival)
          THEN [exc |-> "StopIteration", data |-> data, offset |-> offset]
          ELSE IF idx > Len(data)
          THEN [exc |-> "IndexError", data |-> data, offset |-> offset]
          ELSE QuantLoop(px, i + 1, mask, ival, k + 1, mval, Q, max_val,
                         [data EXCEPT ![idx] = QuantValue(mval, Q, ival[k], max_val)],
                         offset)

\* the width of the minimum, (4, 2, 1)[mf]
MinWidth(mf) == CASE mf = 0 -> 4 [] mf = 1 -> 2 [] OTHER -> 1

\* the minimum, ("<f", "<h", "b")[mf]
MinAt(b, off, mf) ==
  CASE mf = 0 -> F32(Bytes(b, off, 4)) [] mf = 1 -> I16(b, off) [] OTHER -> I8(b, off)

read_block(data, rx, ry, mask, Q, max_val, b, offset) ==
  IF ~Avail(b, offset, 1)
  THEN [exc |-> "struct.error", data |-> data, offset |-> offset]
  ELSE
  LET mf == U8(b, offset) \div 64
      flags == U8(b, offset) % 64
      off1 == offset + 1
      px == dloop(rx, ry)
      hasMin == (flags % 2) # 0
      off2 == IF hasMin THEN off1 + MinWidth(mf) ELSE off1
      mval == IF hasMin THEN MinAt(b, off1, mf) ELSE 0
  IN
  IF ~PyAssert(flags < 4)
  THEN [exc |-> "AssertionError", data |-> data, offset |-> off1]
  ELSE IF flags = 0 THEN RawLoop(px, 1, mask, b, data, off1)
  ELSE IF hasMin /\ mf = 3
  THEN [exc |-> "IndexError", data |-> data, offset |-> off1]
  ELSE IF hasMin /\ ~Avail(b, off1, MinWidth(mf))
  THEN [exc |-> "struct.error", data |-> data, offset |-> off1]
  ELSE IF ((flags \div 2) % 2) # 0
  THEN IF \E k \in 1..Len(px) : px[k][2] * mask.w + px[k][1] + 1 > Len(data)
       THEN [exc |-> "IndexError", data |-> data, offset |-> off2]
       ELSE [exc |-> "none", data |-> ConstFill(data, px, mask, mval), offset |-> off2]
  ELSE
  LET q == read_qval(b, off2)
  IN IF q.exc # "none" THEN [exc |-> q.exc, data |-> data, offset |-> off2]
     \* iter(None)
     ELSE IF q.isNone THEN [exc |-> "TypeError", data |-> data, offset |-> q.offset]
     ELSE QuantLoop(px, 1, mask, q.val, 1, mval, Q, max_val, data, q.offset)

(***************************************************************************)
(* read_block applied to one block of a 2 x 2 grid.                        *)
(***************************************************************************)
\* the bytes of one block: flag byte, minimum (modes 1 and 3), payload
BlockBytes(mode, mf, mval, payload) ==
  <<mf * 64 + mode>>
  \o (IF mode % 2 = 0 THEN <<>>
      ELSE CASE mf = 0 -> EncF32(mval)
             [] mf = 1 -> EncI16(mval)
             [] OTHER -> <<(mval + 256) % 256>>)
  \o payload

\* what follows the minimum: floats (mode 0), packed integers (otherwise)
BlockPayload(mode, vals) ==
  IF mode = 0 THEN Flatten([i \in 1..Len(vals) |-> EncF32(vals[i])])
  ELSE PackQ(3, 2, vals)

BlkMaskBytes == {0, 96, 144, 240}
BlkPayloads == {<<1, 0, 3, 2>>, <<3>>}

OnlyBlk == UNCHANGED <<py, pc, blob, session, hist, rle, qv, tile>>

BlkInit ==
  /\ \E mode \in 0..4, mf \in 0..2, mval \in {-1, 3, 5}, vals \in BlkPayloads,
        mbyte \in BlkMaskBytes, fill \in {0, 9}, Q \in {1, 2}, max_val \in {2, 4},
        rx \in {<<0, 1>>, <<1>>}, ry \in {<<0, 1>>, <<0>>} :
       blk = [pc |-> "input", mode |-> mode, mf |-> mf, mval |-> mval,
              bytes |-> BlockBytes(mode, mf, mval, BlockPayload(mode, vals)),
              data |-> Rep(fill, 4), rx |-> rx, ry |-> ry,
              mask |-> [w |-> 2, h |-> 2, data |-> <<mbyte>>],
              Q |-> Q, max_val |-> max_val, offset |-> 0,
              out |-> [exc |-> "none", data |-> <<>>, offset |-> 0]]
  /\ py = 2 /\ pc = "idle" /\ blob = <<>> /\ session = Idle /\ hist = <<>>
  /\ rle = Idle /\ qv = Idle /\ tile = Idle

\* read_block(data, rx, ry, mask, Q, max_val, blob, offset)
BlkRead ==
  /\ OnlyBlk
  /\ blk.pc = "input"
  /\ \E pad \in 0..MaxPad :
       blk' = [blk EXCEPT !.pc = "read", !.offset = pad,
                 !.out = read_block(blk.data, blk.rx, blk.ry, blk.mask, blk.Q,
                                    blk.max_val, Rep(85, pad) \o blk.bytes, pad)]

BlkNext == BlkRead

SpecBlock == BlkInit /\ [][BlkNext]_vars

\* the data indices (1-based) of the block's pixels
BlkPixels == {blk.mask.w * y + x + 1 : <<x, y>> \in
                {dloop(blk.rx, blk.ry)[k] : k \in 1..(Len(blk.rx) * Len(blk.ry))}}

\* the bytes of the flag byte and of the minimum field, when the mode has one
BlkHeadLen == IF blk.mode % 2 = 1 THEN 1 + MinWidth(blk.mf) ELSE 1

\* C3 as stated: a block of mode 1 sets every pixel of its range to the minimum,
\* whatever the mask holds, and consumes the flag byte and the minimum only.
C3_Mode1Constant ==
  blk.pc = "read" /\ blk.mode = 1 =>
    /\ blk.out.exc = "none"
    /\ \A i \in BlkPixels : blk.out.data[i] = blk.mval
    /\ blk.out.offset = blk.offset + BlkHeadLen

\* C3 amended: a block whose mode has bit 1 set (2 or 3) sets every pixel of its
\* range to the minimum (0.0 in mode 2, which has no minimum field), whatever
\* the mask holds, and consumes the flag byte and the minimum field only.
C3_Bit1Constant ==
  blk.pc = "read" /\ blk.mode \in {2, 3} =>
    /\ blk.out.exc = "none"
    /\ \A i \in BlkPixels : blk.out.data[i] = (IF blk.mode = 3 THEN blk.mval ELSE 0)
    /\ blk.out.offset = blk.offset + BlkHeadLen

\* a constant block that overwrote a pixel the mask leaves out
C3_Witness ==
  /\ blk.pc = "read" /\ blk.mode = 3 /\ blk.mval = 5 /\ blk.mask.data = <<96>>
  /\ blk.data = <<9, 9, 9, 9>> /\ blk.out.data = <<5, 5, 5, 5>>
  /\ blk.offset = 1 /\ blk.mf = 1 /\ blk.out.offset = 4

\* C4 as stated: a block of mode 3 writes no value above max_val.
C4_Mode3Clamped ==
  blk.pc = "read" /\ blk.mode = 3 =>
    \A i \in 1..Len(blk.data) :
      blk.out.data[i] # blk.data[i] => blk.out.data[i] <= blk.max_val

\* C4 amended: a block of mode 1 (quantized: bit 0 set, bit 1 clear) writes no
\* value above max_val, for every minimum, quantization step and packed sequence.
C4_QuantClamped ==
  blk.pc = "read" /\ blk.mode = 1 =>
    \A i \in 1..Len(blk.data) :
      blk.out.data[i] # blk.data[i] => blk.out.data[i] <= blk.max_val

\* a quantized block whose value 3 + 2 * 3 was clamped to max_val
C4_Witness ==
  /\ blk.pc = "read" /\ blk.mode = 1 /\ blk.out.exc = "none"
  /\ blk.mval = 3 /\ blk.Q = 2 /\ blk.max_val = 4 /\ blk.mask.data = <<240>>
  /\ blk.data = <<9, 9, 9, 9>> /\ blk.out.data = <<4, 3, 4, 4>>

(***************************************************************************)
(* read_tiles' dispatch: the (rx, ry) ranges handed to read_block, in      *)
(* order.                                                                  *)
(***************************************************************************)
\* a variant that leaves out the clamp to the image bound
BlockRangeNoClamp(o, size, dim) == Range(o, o + size, 1)

\* range(x, x + min(bw, self.w - x))
BlockRange(o, size, dim) == Range(o, o + Min(size, dim - o), 1)

TileBlocks(w, h, nbX, nbY) ==
  IF nbY = 0 \/ nbX = 0 THEN [exc |-> "ZeroDivisionError", blocks |-> <<>>]
  ELSE
  LET bh == h \div nbY
      bw == w \div nbX
  IN \* range() with a step of 0
     IF bw = 0 \/ bh = 0 THEN [exc |-> "ValueError", blocks |-> <<>>]
     ELSE LET origins == dloop(Range(0, w, bw), Range(0, h, bh))
          IN [exc |-> "none",
              blocks |-> [k \in 1..Len(origins) |->
                            [rx |-> BlockRange(origins[k][1], bw, w),
                             ry |-> BlockRange(origins[k][2], bh, h)]]]

OnlyTile == UNCHANGED <<py, pc, blob, session, hist, rle, qv, blk>>

TileInit ==
  /\ \E w \in 1..MaxDim, h \in 1..MaxDim, nbX \in 0..MaxDim, nbY \in 0..MaxDim :
       tile = [pc |-> "input", w |-> w, h |-> h, nbX |-> nbX, nbY |-> nbY,
               out |-> [exc |-> "none", blocks |-> <<>>]]
  /\ py = 2 /\ pc = "idle" /\ blob = <<>> /\ session = Idle /\ hist = <<>>
  /\ rle = Idle /\ qv = Idle /\ blk = Idle

\* the loop of read_tiles, for a header of w x h with nbX x nbY value blocks
TileDispatch ==
  /\ OnlyTile
  /\ tile.pc = "input"
  /\ tile' = [tile EXCEPT !.pc = "dispatched",
                          !.out = TileBlocks(tile.w, tile.h, tile.nbX, tile.nbY)]

TileNext == TileDispatch

SpecTiles == TileInit /\ [][TileNext]_vars

InSeq(v, sq) == \E i \in 1..Len(sq) : sq[i] = v

\* the dispatched blocks that hold pixel (x, y)
TileHolders(x, y) ==
  {k \in 1..Len(tile.out.blocks) :
     InSeq(x, tile.out.blocks[k].rx) /\ InSeq(y, tile.out.blocks[k].ry)}

TilePre ==
  /\ tile.pc = "dispatched"
  /\ 1 <= tile.nbX /\ tile.nbX <= tile.w /\ 1 <= tile.nbY /\ tile.nbY <= tile.h

\* every pixel lies in exactly one dispatched block, and no block leaves the image
TilePartition ==
  /\ tile.out.exc = "none"
  /\ \A x \in 0..(tile.w - 1), y \in 0..(tile.h - 1) : Cardinality(TileHolders(x, y)) = 1
  /\ \A k \in 1..Len(tile.out.blocks) :
       /\ \A i \in 1..Len(tile.out.blocks[k].rx) :
            tile.out.blocks[k].rx[i] >= 0 /\ tile.out.blocks[k].rx[i] < tile.w
       /\ \A i \in 1..Len(tile.out.blocks[k].ry) :
            tile.out.blocks[k].ry[i] >= 0 /\ tile.out.blocks[k].ry[i] < tile.h

CeilDiv(a, b) == (a + b - 1) \div b

\* C9 as stated: the dispatched blocks partition the grid, stay inside the image,
\* and are the header's blockRows x blockCols grid, whose last row and column
\* absorb any remainder.
C9_HeaderGridAbsorbs ==
  TilePre =>
    /\ TilePartition
    /\ Len(tile.out.blocks) = tile.nbX * tile.nbY

\* C9 amended: the dispatched blocks partition the grid and stay inside the
\* image; with bw = width div blockCols and bh = height div blockRows they form
\* ceil(width / bw) columns and ceil(height / bh) rows, each block at most
\* bw x bh: a remainder is covered by further, clamped blocks after the
\* header's blockCols columns and blockRows rows.
C9_Partition ==
  TilePre =>
    /\ TilePartition
    /\ Len(tile.out.blocks) = CeilDiv(tile.w, tile.w \div tile.nbX)
                              * CeilDiv(tile.h, tile.h \div tile.nbY)
    /\ \A k \in 1..Len(tile.out.blocks) :
         /\ Len(tile.out.blocks[k].rx) >= 1
         /\ Len(tile.out.blocks[k].rx) <= tile.w \div tile.nbX
         /\ Len(tile.out.blocks[k].ry) >= 1
         /\ Len(tile.out.blocks[k].ry) <= tile.h \div tile.nbY

\* a width of 5 in 2 block columns: after the two columns of width 2 a third,
\* clamped to one pixel, is dispatched
C9_Witness ==
  /\ TilePre /\ tile.w = 5 /\ tile.nbX = 2 /\ tile.h = 2 /\ tile.nbY = 1
  /\ Len(tile.out.blocks) = 3
  /\ tile.out.blocks[2] = [rx |-> <<2, 3>>, ry |-> <<0, 1>>]
  /\ tile.out.blocks[3] = [rx |-> <<4>>, ry |-> <<0, 1>>]

(***************************************************************************)
(* lerc: the session object.  attrs holds the names of the attributes      *)
(* assigned so far; reading another raises AttributeError.                 *)
(***************************************************************************)
Magic == <<67, 110, 116, 90, 73, 109, 97, 103, 101, 32>>   \* b"CntZImage "

NewSession ==
  [attrs |-> {}, valid |-> FALSE, h |-> 0, w |-> 0, u |-> 0,
   m_nbY |-> 0, m_nbX |-> 0, m_nB |-> 0, m_maxVal |-> 0,
   v_nbY |-> 0, v_nbX |-> 0, v_nB |-> 0, v_maxVal |-> 0, mask |-> NoMask]

\* the except clause: self.valid = False
Invalid(s) == [s EXCEPT !.valid = FALSE]

\* lerc.__init__(blob): the object it leaves
lerc_init(b) ==
  LET s0 == [NewSession EXCEPT !.attrs = {"valid"},
                               !.valid = (SubSeq(b, 1, Min(10, Len(b))) = Magic)]
  IN
  IF ~PyAssert(s0.valid) THEN Invalid(s0)
  ELSE IF ~Avail(b, 10, 24) THEN Invalid(s0)
  ELSE
  LET fileVersion == U32(b, 10)
      imageType == U32(b, 14)
      s1 == [s0 EXCEPT !.attrs = @ \cup {"h", "w", "u"},
                       !.h = U32(b, 18), !.w = U32(b, 22),
                       !.u = F64Twice(Bytes(b, 26, 8))]
  IN
  IF ~PyAssert(fileVersion = 11 /\ imageType = 8) THEN Invalid(s1)
  ELSE IF ~Avail(b, 34, 16) THEN Invalid(s1)
  ELSE
  LET nbY == U32(b, 34)
      nbX == U32(b, 38)
      nB == U32(b, 42)
      val == F32(Bytes(b, 46, 4))
      valueOnly == [s1 EXCEPT !.attrs = @ \cup {"v_nbY", "v_nbX", "v_nB", "v_maxVal"},
                              !.v_nbY = nbY, !.v_nbX = nbX, !.v_nB = nB,
                              !.v_maxVal = val]
  IN
  IF ~(Len(b) >= 66 + nB) THEN valueOnly
  ELSE IF ~PyAssert((nbX = 0 /\ nbY = 0) /\ (val = 1 \/ val = 0)) THEN Invalid(s1)
  ELSE IF ~Avail(b, 50 + nB, 16) THEN Invalid(s1)
  ELSE [s1 EXCEPT !.attrs = @ \cup {"m_nbY", "m_nbX", "m_nB", "m_maxVal",
                                    "v_nbY", "v_nbX", "v_nB", "v_maxVal"},
                  !.m_nbY = nbY, !.m_nbX = nbX, !.m_nB = nB, !.m_maxVal = val,
                  !.v_nbY = U32(b, 50 + nB), !.v_nbX = U32(b, 54 + nB),
                  !.v_nB = U32(b, 58 + nB),
                  !.v_maxVal = F32(Bytes(b, 62 + nB, 4))]

\* decode_mask(blob): [exc, mask]
decode_mask(pyv, s, b) ==
  IF "m_nB" \notin s.attrs THEN [exc |-> "AttributeError", mask |-> NoMask]
  ELSE IF s.m_nB = 0
  THEN bitmask(pyv, s.w, s.h, s.m_maxVal * 255, TRUE, <<>>)
  ELSE LET r == decode_RLE(b, 50, s.m_nB)
       IN IF r.exc # "none" THEN [exc |-> r.exc, mask |-> NoMask]
          ELSE bitmask(pyv, s.w, s.h, 255, r.isNone, r.val)

\* the loop of read_tiles from block k on
RECURSIVE TileLoop(_, _, _, _, _, _)
TileLoop(s, b, blocks, k, data, offset) ==
  IF k > Len(blocks) THEN [exc |-> "none", data |-> data]
  ELSE LET r == read_block(data, blocks[k].rx, blocks[k].ry, s.mask, s.u,
                           s.v_maxVal, b, offset)
       IN IF r.exc # "none" THEN [exc |-> r.exc, data |-> r.data]
          ELSE TileLoop(s, b, blocks, k + 1, r.data, r.offset)

\* read_tiles(blob): [exc, data]
read_tiles(s, b) ==
  IF s.v_nbY = 0 \/ s.v_nbX = 0 THEN [exc |-> "ZeroDivisionError", data |-> <<>>]
  ELSE IF "m_nB" \notin s.attrs THEN [exc |-> "AttributeError", data |-> <<>>]
  ELSE LET t == TileBlocks(s.w, s.h, s.v_nbX, s.v_nbY)
       IN IF t.exc # "none" THEN [exc |-> t.exc, data |-> <<>>]
          ELSE TileLoop(s, b, t.blocks, 1, Rep(0, s.w * s.h), 66 + s.m_nB)

\* a variant of decode that skips the test of self.valid
IsValidSkipped(s) == TRUE

\* if not self.valid
IsValid(s) == s.valid

\* a variant that decodes the mask on every call
NeedMaskAlways(s) == TRUE

\* if "mask" not in dir(self)
NeedMask(s) == "mask" \notin s.attrs

\* decode(blob): the outcome (kind "absent": (None,) * 3; "grid": the data
\* array; "raised": the exception exc) and the object it leaves
decode(pyv, s, b) ==
  IF ~IsValid(s)
  THEN [out |-> [kind |-> "absent", exc |-> "none", grid |-> <<>>], s |-> s]
  ELSE
  LET m == IF NeedMask(s) THEN decode_mask(pyv, s, b)
           ELSE [exc |-> "none", mask |-> s.mask]
      s1 == [s EXCEPT !.attrs = @ \cup {"mask"}, !.mask = m.mask]
  IN IF m.exc # "none"
     THEN [out |-> [kind |-> "raised", exc |-> m.exc, grid |-> <<>>], s |-> s]
     ELSE LET r == read_tiles(s1, b)
          IN IF r.exc # "none"
             THEN [out |-> [kind |-> "raised", exc |-> r.exc, grid |-> <<>>], s |-> s1]
             ELSE [out |-> [kind |-> "grid", exc |-> "none", grid |-> r.data], s |-> s1]

(***************************************************************************)
(* The blobs of the model, built by the byte layout of the format.         *)
(***************************************************************************)
EncU32(n) == <<n % 256, (n \div 256) % 256, (n \div 65536) % 256, n \div 16777216>>

\* offsets 0..33: magic, version, pixel type, height, width, half step
HeaderBytes(version, type, h, w, q) ==
  Magic \o EncU32(version) \o EncU32(type) \o EncU32(h) \o EncU32(w)
  \o EncHalfStep(q)

\* a block-grid descriptor: blockRows, blockCols, byteCount, fill or max value
DescBytes(nbY, nbX, nB, val) == EncU32(nbY) \o EncU32(nbX) \o EncU32(nB) \o EncF32(val)

\* the sample an encoder stores at (x, y), as a float (mode 0) or a code (mode 1)
PixVal(x, y) == (x + 2 * y + 1) % 4

\* the subsequence of the pixels the mask holds
RECURSIVE Masked(_, _)
Masked(px, mask) ==
  IF Len(px) = 0 THEN <<>>
  ELSE (IF at(mask, px[1][1], px[1][2]) THEN <<px[1]>> ELSE <<>>)
       \o Masked(Tail(px), mask)

\* one block of the value stream, in the given mode
EncBlock(mode, rx, ry, mask) ==
  LET px == Masked(dloop(rx, ry), mask)
      vals == [i \in 1..Len(px) |-> PixVal(px[i][1], px[i][2])]
  IN BlockBytes(mode, 2, IF mode = 3 THEN 5 ELSE 1,
                IF mode \in {0, 1} THEN BlockPayload(mode, vals) ELSE <<>>)

MaskKinds == {"ones", "zeros", "rle", "rle-bad-marker"}

\* a blob of a w x h image whose value blocks all use one mode
GoodBlob(w, h, nbX, nbY, mode, mk) ==
  LET md == CASE mk = "ones" -> <<255>> [] mk = "zeros" -> <<0>> [] OTHER -> <<180>>
      region == CASE mk \in {"ones", "zeros"} -> <<>>
                  [] mk = "rle" -> EncI16(1) \o md \o EncI16(EndMarker)
                  [] OTHER -> EncI16(1) \o md \o <<0, 0>>
      mask == [w |-> w, h |-> h, data |-> md]
      tiles == TileBlocks(w, h, nbX, nbY).blocks
      blocks == Flatten([k \in 1..Len(tiles) |->
                           EncBlock(mode, tiles[k].rx, tiles[k].ry, mask)])
  IN HeaderBytes(11, 8, h, w, 1)
     \o DescBytes(0, 0, Len(region), IF mk = "zeros" THEN 0 ELSE 1)
     \o region
     \o DescBytes(nbY, nbX, Len(blocks), 4)
     \o blocks

GoodBlobs ==
  {GoodBlob(wh[1], wh[2], nbX, nbY, mode, mk) :
     wh \in {<<2, 2>>, <<3, 2>>}, nbX \in 1..2, nbY \in 1..2, mode \in 0..4,
     mk \in MaskKinds}

Variants == {"short20", "short33", "short40", "magic", "version", "type",
             "mask-blocks", "mask-fill", "no-mask"}

\* a blob cut short, with one field changed, or without its mask descriptor
Variant(v, b) ==
  CASE v = "short20" -> SubSeq(b, 1, 20)
    [] v = "short33" -> SubSeq(b, 1, 33)
    [] v = "short40" -> SubSeq(b, 1, 40)
    [] v = "magic" -> [b EXCEPT ![1] = 66]
    [] v = "version" -> [b EXCEPT ![11] = 12]
    [] v = "type" -> [b EXCEPT ![15] = 9]
    [] v = "mask-blocks" -> [b EXCEPT ![39] = 1]
    [] v = "mask-fill" -> SubSeq(b, 1, 46) \o EncF32(2) \o SubSeq(b, 51, Len(b))
    [] OTHER -> SubSeq(b, 1, 34) \o SubSeq(b, 50 + U32(b, 42) + 1, Len(b))

VariantBlobs ==
  {Variant(v, GoodBlob(2, 2, 1, 1, mode, mk)) :
     v \in Variants, mode \in 0..4, mk \in MaskKinds}

Blobs == GoodBlobs \cup VariantBlobs

\* a second blob a caller may hand to decode: b with another mask (the mask
\* byte of a run-length coded region inverted, or the other fill value)
OtherBlob(b) ==
  IF Len(b) < 50 THEN b \o <<0>>
  ELSE IF Len(b) >= 66 /\ U32(b, 42) > 0 THEN [b EXCEPT ![53] = 255 - @]
  ELSE IF b[49] = 0 THEN SubSeq(b, 1, 46) \o EncF32(1) \o SubSeq(b, 51, Len(b))
  ELSE SubSeq(b, 1, 46) \o EncF32(0) \o SubSeq(b, 51, Len(b))

(***************************************************************************)
(* The session: lerc(blob), then decode calls.                             *)
(***************************************************************************)
OnlySession == UNCHANGED <<rle, qv, blk, tile>>

Init ==
  /\ py \in {2, 3}
  /\ pc = "new"
  /\ blob \in Blobs
  /\ session = NewSession
  /\ hist = <<>>
  /\ rle = Idle /\ qv = Idle /\ blk = Idle /\ tile = Idle

\* codec = lerc(blob)
Open ==
  /\ OnlySession
  /\ pc = "new"
  /\ pc' = "open"
  /\ session' = lerc_init(blob)
  /\ UNCHANGED <<py, blob, hist>>

\* codec.decode(arg)
Decode ==
  /\ OnlySession
  /\ pc = "open"
  /\ Len(hist) < MaxDecodes
  /\ \E arg \in {blob, OtherBlob(blob)} :
       LET r == decode(py, session, arg)
       IN /\ session' = r.s
          /\ hist' = Append(hist, [arg |-> arg, out |-> r.out])
  /\ UNCHANGED <<py, pc, blob>>

Next == Open \/ Decode

Spec == Init /\ [][Next]_vars

(***************************************************************************)
(* Properties of the session.                                              *)
(***************************************************************************)
\* the blob fails a check of the preamble: its length, magic, version or type
BadPreamble(b) ==
  \/ Len(b) < 34
  \/ SubSeq(b, 1, 10) # Magic
  \/ U32(b, 10) # 11
  \/ U32(b, 14) # 8

AllAbsent == \A k \in 1..Len(hist) : hist[k].out.kind = "absent"

\* C2: a blob shorter than 34 bytes, or with another magic token, version or
\* pixel type, opens as an invalid session, and every decode on it returns the
\* absent result without building a mask.
C2_BadPreambleInvalid ==
  pc = "open" /\ BadPreamble(blob) =>
    /\ ~session.valid
    /\ "mask" \notin session.attrs
    /\ AllAbsent

\* a blob whose magic token's first byte was changed, decoded twice
C2_Witness ==
  /\ pc = "open" /\ Len(blob) >= 66 /\ blob[1] # 67 /\ SubSeq(blob, 2, 10) = Tail(Magic)
  /\ ~session.valid /\ Len(hist) = 2 /\ AllAbsent

\* the descriptor at offset 34 of a blob with a sound preamble is followed by a
\* second descriptor (the blob is long enough) and fails the mask validation
FailedMaskDescriptor(b) ==
  /\ ~BadPreamble(b) /\ Len(b) >= 50
  /\ Len(b) >= 66 + U32(b, 42)
  /\ (U32(b, 34) # 0 \/ U32(b, 38) # 0 \/ F32(Bytes(b, 46, 4)) \notin {0, 1})

\* C8 as stated: open keeps the session valid and takes the descriptor at
\* offset 34 as the value descriptor, with no mask descriptor.
C8_Reinterpreted ==
  pc = "open" /\ FailedMaskDescriptor(blob) =>
    /\ session.valid
    /\ "m_nB" \notin session.attrs
    /\ "v_nB" \in session.attrs
    /\ session.v_nbY = U32(blob, 34) /\ session.v_nbX = U32(blob, 38)
    /\ session.v_nB = U32(blob, 42) /\ session.v_maxVal = F32(Bytes(blob, 46, 4))

\* C8 amended: open marks the session invalid and records neither descriptor;
\* every decode on it returns the absent result.
C8_FailedMaskInvalid ==
  pc = "open" /\ FailedMaskDescriptor(blob) =>
    /\ ~session.valid
    /\ "m_nB" \notin session.attrs /\ "v_nB" \notin session.attrs
    /\ AllAbsent

\* a mask descriptor with a fill value of 2.0, opened and decoded
C8_Witness ==
  /\ pc = "open" /\ FailedMaskDescriptor(blob)
  /\ U32(blob, 34) = 0 /\ U32(blob, 38) = 0 /\ F32(Bytes(blob, 46, 4)) = 2
  /\ ~session.valid /\ Len(hist) = 1 /\ AllAbsent

\* C10: a decode on a session that open reports valid never reads an attribute
\* open did not assign.
C10_FieldsDefined ==
  pc = "open" /\ session.valid =>
    \A k \in 1..Len(hist) : hist[k].out.exc # "AttributeError"

\* an otherwise valid blob with a run-length coded mask region whose end marker
\* was changed: the value read after the run loop is not -32768
BadEndMarker(s, b) ==
  /\ s.valid /\ "m_nB" \in s.attrs /\ s.m_nB > 0
  /\ decode_RLE(b, 50, s.m_nB).exc = "none"
  /\ decode_RLE(b, 50, s.m_nB).isNone

\* C1: decode of a blob whose run-length end marker is corrupted reports the
\* absent result: it returns no grid built with another mask, and does not raise.
C1_BadMarkerAbsent ==
  pc = "open" /\ BadEndMarker(session, blob) =>
    \A k \in 1..Len(hist) : hist[k].arg = blob => hist[k].out.kind = "absent"

\* the calls so far were all made with one blob
SameArg == \A k \in 1..Len(hist) : hist[k].arg = hist[1].arg

\* the attributes open assigns
HeaderOf(s) == [s EXCEPT !.mask = NoMask, !.attrs = @ \ {"mask"}]

\* C7: repeated decodes of one blob on a session return identical results; the
\* mask is built once and never changed by a later call, and no header field of
\* the session changes between calls.
C7_Idempotent ==
  [][/\ ("mask" \in session.attrs =>
           "mask" \in session'.attrs /\ session'.mask = session.mask)
     /\ (pc = "open" => HeaderOf(session') = HeaderOf(session))
     /\ (SameArg' => \A k \in 1..Len(hist') : hist'[k].out = hist'[1].out)]_vars

\* a valid blob with a run-length coded mask decoded twice: the same grid, with
\* pixels the mask leaves out at 0.0, under the mask of the first call
C7_Witness ==
  /\ pc = "open" /\ session.valid /\ Len(hist) = 2
  /\ hist[1].arg = blob /\ hist[2].arg = blob
  /\ hist[1].out.kind = "grid" /\ hist[2].out = hist[1].out
  /\ session.mask.data = <<180>>
  /\ hist[1].out.grid = <<2, 0, 4, 1>>

====
